---- MODULE Spec2Model ----
(***************************************************************************)
(* Model of the nyaa.si Telegram bot: the per-user session kept in         *)
(* context.user_data, the messages of the chat with their inline           *)
(* keyboards, the search / pagination / magnet handlers of bot.py and the  *)
(* collections written by database.py.                                     *)
(*                                                                         *)
(* The application is built with Application.builder() defaults, so        *)
(* updates are processed one at a time: every handler is one action.       *)
(* SpecAsync alone lets a select handler give way at its fetch.            *)
(* The specifications start from the bot at work, its database connected;  *)
(* SpecJobs starts from main() and runs the startup and the cleanup job,   *)
(* SpecRestart restarts the process, SpecUsers and SpecAdmin move the      *)
(* clock, SpecCrowd has two users.                                         *)
(* Text is modelled as a sequence of one-character strings; a URL or a     *)
(* callback payload as a sequence of string tokens.                        *)
(***************************************************************************)
EXTENDS Integers, Sequences, FiniteSets, TLC

\* ---------------------------------------------------------------- bounds
MaxResults == 6     \* most result rows the site returns for one search
MaxMsgs == 2        \* most keyboard-carrying messages kept in one chat
MaxRawArg == 1      \* largest |argument| of a hand-crafted callback payload
MaxUpdates == 4     \* most updates the dispatcher handles in one run
MaxRows == 3        \* most rows of a result table given to the parser alone
MaxInflight == 1    \* most magnet fetches one user has in flight
MaxClock == 2       \* latest instant the clock reaches

Users == {1}

\* the text messages users send: empty, blank, and a query to strip
Texts == {<<>>, <<" ">>, <<" ", "a", " ">>}

\* --------------------------------------------------------------- state
VARIABLES
    user_data,      \* context.user_data of each user
    msgs,           \* per chat: the bot's messages that carry or carried a keyboard
                    \* (a reply without keyboard is never edited: it is only in last)
    db,             \* the users, search_history and downloads collections
    last,           \* the update handled last and what its handler did
    last_search,    \* per user: the most recent search sent to the site
    updates,        \* how many updates the dispatcher has handled
    site,           \* what the site served to the request of the last update,
                    \* kept by the specifications that watch the site
    inflight,       \* per user: the magnet fetches begun and not yet completed
    env             \* the process and its surroundings: nyaa_bot.session, the
                    \* database connection, the clock (an instant, and the day of
                    \* the month in UTC and in the host's time zone), the
                    \* sender's profile and the ADMIN_IDS of the environment

\* ------------------------------------------------------- python helpers
Min(a, b) == IF a < b THEN a ELSE b
Max(a, b) == IF a > b THEN a ELSE b

\* dict.get(key, default)
Get(d, k, default) == IF k \in DOMAIN d THEN d[k] ELSE default

\* d[key] = value
Put(d, k, v) == (k :> v) @@ d

\* a slice that always starts at the first element
PySlice_from_start(s, a, b) ==
    LET n  == Len(s)
        lo == IF a < 0 THEN Max(a + n, 0) ELSE Min(a, n)
        hi == IF b < 0 THEN Max(b + n, 0) ELSE Min(b, n)
    IN  IF lo >= hi THEN <<>> ELSE SubSeq(s, 1, hi - lo)

\* seq[a:b] with Python's treatment of negative and oversized bounds
PySlice(s, a, b) ==
    LET n  == Len(s)
        lo == IF a < 0 THEN Max(a + n, 0) ELSE Min(a, n)
        hi == IF b < 0 THEN Max(b + n, 0) ELSE Min(b, n)
    IN  IF lo >= hi THEN <<>> ELSE SubSeq(s, lo + 1, hi)

\* seq[i] raises IndexError outside [-len, len)
PyIndexRaises(s, i) == i >= Len(s) \/ i < 0 - Len(s)
PyIndex(s, i) == IF i < 0 THEN s[Len(s) + i + 1] ELSE s[i + 1]

RECURSIVE lstrip(_)
lstrip(s) == IF s # <<>> /\ Head(s) = " " THEN lstrip(Tail(s)) ELSE s

RECURSIVE rstrip(_)
rstrip(s) ==
    IF s # <<>> /\ s[Len(s)] = " " THEN rstrip(SubSeq(s, 1, Len(s) - 1)) ELSE s

\* the text taken as it is
strip_unstripped(s) == s

\* str.strip()
strip(s) == rstrip(lstrip(s))

Digits == <<"0", "1", "2", "3", "4", "5", "6", "7", "8", "9">>

RECURSIVE FormatNat(_)
FormatNat(n) ==
    IF n < 10 THEN <<Digits[n + 1]>>
    ELSE Append(FormatNat(n \div 10), Digits[(n % 10) + 1])

\* f"{n}" for an int
FormatInt(n) == IF n < 0 THEN <<"-">> \o FormatNat(0 - n) ELSE FormatNat(n)

DigitVal(c) == CHOOSE d \in 0..9 : Digits[d + 1] = c
IsDigit(c) == \E d \in 0..9 : Digits[d + 1] = c

RECURSIVE ParseNat(_)
ParseNat(s) ==
    IF Len(s) = 1 THEN DigitVal(s[1])
    ELSE 10 * ParseNat(SubSeq(s, 1, Len(s) - 1)) + DigitVal(s[Len(s)])

AllDigits(s) == s # <<>> /\ \A i \in 1..Len(s) : IsDigit(s[i])

\* int(text) raises ValueError unless text is an optionally signed numeral
IntRaises(s) ==
    IF s # <<>> /\ s[1] = "-" THEN ~AllDigits(Tail(s)) ELSE ~AllDigits(s)
ParseInt(s) == IF s[1] = "-" THEN 0 - ParseNat(Tail(s)) ELSE ParseNat(s)

RECURSIVE quote(_)
\* urllib.parse.quote: letters are kept, a space becomes %20
quote(s) ==
    IF s = <<>> THEN <<>>
    ELSE (IF Head(s) = " " THEN <<"%", "2", "0">> ELSE <<Head(s)>>) \o quote(Tail(s))

\* show_results_page's page size
per_page == 5

\* ------------------------------------------------------------ the site
Host == <<"https://nyaa.si">>

\* the href of the detail page of item i of a listing for query q
Href(q, i) == <<"/view/">> \o q \o <<"/">> \o FormatInt(i)

\* an <a> of a row: its href (<<>> when it has none) and its text
Anchor(href, text) == [href |-> href, text |-> text]

\* the <td> cells of a complete row: category, name, links, size, date,
\* seeders, leechers, downloads
FullCells ==
    <<<<"Anime">>, <<"name">>, <<"links">>, <<"1 GiB">>, <<"2026-01-01">>,
      <<"1">>, <<"2">>, <<"9">>>>

\* one <tr> of the result table: its anchors in document order, its cells,
\* and whether reading it makes the parser raise
TableRow(anchors, cells, raises) == [anchors |-> anchors, cells |-> cells, raises |-> raises]

ResultRow(q, i) ==
    TableRow(<<Anchor(<<"/download/">> \o FormatInt(i), <<>>),
               Anchor(Href(q, i), q \o <<"#">> \o FormatInt(i))>>,
             FullCells, FALSE)
DecorationRow == TableRow(<<>>, <<>>, FALSE)

\* how many result rows a page of the site has: none, one, a full page of
\* the bot, and more than one page of the bot
ResultCounts == {0, 1, per_page, MaxResults}

\* what the site answers to a request: a connection error or timeout, a
\* non-200 status (whose body the bot never reads), or a page
Response(kind, rows, magnets) == [kind |-> kind, rows |-> rows, magnets |-> magnets]

\* the responses the site may give to a search for q
SearchResponses(q) ==
    {Response("error", <<>>, <<>>), Response("status", <<>>, <<>>)}
    \cup {Response("ok", (IF deco THEN <<DecorationRow>> ELSE <<>>)
                         \o [i \in 1..n |-> ResultRow(q, i)], <<>>)
          : n \in ResultCounts, deco \in BOOLEAN}

\* one response for each result list the bot can get from a search: the
\* responses left out differ from these only in what the bot does not keep
DistinctResponses(q) ==
    {resp \in SearchResponses(q) :
        resp.kind # "status" /\ (resp.rows = <<>> \/ resp.rows[1] # DecorationRow)}

\* short pages only, and a non-200 status whose body holds a result row
ShortResponses(q) ==
    {resp \in SearchResponses(q) : Len(resp.rows) <= 2}
    \cup {Response("status", <<ResultRow(q, 1)>>, <<>>)}

\* a failed request, an empty page and a page of one result
BriefResponses(q) == {resp \in DistinctResponses(q) : Len(resp.rows) <= 1}

\* the title of a row, made n characters long
Pad(text, n) == text \o [j \in 1..(n - Len(text)) |-> "x"]

\* titles at, just under and just over the 50 characters a result line has
\* room for
TitleLengths == {3, 50, 51}

\* result pages of one and of three pages of the bot, whose first row has a
\* title of a chosen length
TitledResponses(q) ==
    {Response("ok", [i \in 1..n |->
                        IF i = 1
                        THEN TableRow(<<Anchor(Href(q, 1), Pad(q \o <<"#">> \o FormatInt(1), len))>>,
                                      FullCells, FALSE)
                        ELSE ResultRow(q, i)], <<>>)
     : n \in {1, 2 * per_page + 2}, len \in TitleLengths}

\* the rows a table may hold at position i: a result row with all, or only
\* the first 3, 5 or 6, of its cells; a result row whose comments link comes
\* before its title link; a row with no anchor; a row whose only anchor is
\* not a detail link; a row the parser raises on
RowKinds(i) ==
    {TableRow(ResultRow(<<"a">>, i).anchors, SubSeq(FullCells, 1, k), FALSE) : k \in {3, 5, 6, 8}}
    \cup {TableRow(<<Anchor(Href(<<"a">>, i) \o <<"#comments">>, <<"7">>)>>
                   \o ResultRow(<<"a">>, i).anchors, FullCells, FALSE),
          DecorationRow,
          TableRow(<<Anchor(<<"/download/">> \o FormatInt(i), <<>>)>>, FullCells, FALSE),
          TableRow(ResultRow(<<"a">>, i).anchors, FullCells, TRUE)}

RECURSIVE TablesOf(_)
\* the tables of exactly n rows
TablesOf(n) ==
    IF n = 0 THEN {<<>>}
    ELSE {Append(t, row) : t \in TablesOf(n - 1), row \in RowKinds(n)}

\* every table of up to MaxRows rows
Tables == UNION {TablesOf(n) : n \in 0..MaxRows}

\* the detail pages the site may serve: a failure, or a page with n magnet
\* anchors; DetailPage is the page served at url for such a shape
DetailShapes ==
    {[kind |-> "error", n |-> 0], [kind |-> "status", n |-> 0]}
    \cup {[kind |-> "ok", n |-> n] : n \in 0..2}

\* one shape for each value get_magnet_link can return for a url
DistinctShapes == {shape \in DetailShapes : shape.kind # "status" /\ shape.n < 2}

\* the same, and a non-200 answer whose body holds a magnet anchor
BodiedShapes == DetailShapes \cup {[kind |-> "status", n |-> 1]}
DetailPage(url, shape) ==
    Response(shape.kind, <<>>,
             [j \in 1..shape.n |-> <<"magnet:?xt=">> \o url \o <<"&n=">> \o FormatInt(j)])

\* ------------------------------------------------------ NyaaBot (bot.py)
search_url(query, page) ==
    <<"https://nyaa.si/?f=0&c=0_0&q=">> \o quote(query) \o <<"&p=">> \o FormatInt(page)

\* every anchor that has an href taken for a detail link
detail_links_any(row) == SelectSeq(row.anchors, LAMBDA a : a.href # <<>>)

\* row.find("a", href=lambda x: x and x.startswith("/view/")): the matching
\* anchors, of which the code takes the first
detail_links(row) ==
    SelectSeq(row.anchors, LAMBDA a : a.href # <<>> /\ a.href[1] = "/view/")

\* a missing cell read as empty text
cell_text_blank(row, n, default) == IF Len(row.cells) >= n THEN row.cells[n] ELSE <<>>

\* row.select_one("td:nth-of-type(n)") and the text used when it finds nothing
cell_text(row, n, default) == IF Len(row.cells) >= n THEN row.cells[n] ELSE default

RECURSIVE parse_rows(_)
\* the row loop of search_nyaa: a row that raises, or that has no detail
\* link, is passed over
parse_rows(rows) ==
    IF rows = <<>> THEN <<>>
    ELSE LET row   == Head(rows)
             links == detail_links(row)
         IN  (IF row.raises \/ links = <<>> THEN <<>>
              ELSE <<[title |-> links[1].text,
                      url |-> Host \o links[1].href,
                      size |-> cell_text(row, 4, <<"Unknown">>),
                      seeders |-> cell_text(row, 6, <<"0">>),
                      leechers |-> cell_text(row, 7, <<"0">>)]>>)
             \o parse_rows(Tail(rows))

\* search_nyaa reading the body whatever the status
search_nyaa_any_status(resp) ==
    IF resp.kind = "error" THEN [none |-> TRUE, list |-> <<>>]
    ELSE [none |-> FALSE, list |-> parse_rows(resp.rows)]

\* search_nyaa: none = TRUE stands for the None it returns on failure
search_nyaa(resp) ==
    IF resp.kind # "ok" THEN [none |-> TRUE, list |-> <<>>]
    ELSE [none |-> FALSE, list |-> parse_rows(resp.rows)]

\* the last magnet anchor of the page instead of the first
get_magnet_link_last(resp) ==
    IF resp.kind # "ok" THEN <<>>
    ELSE IF resp.magnets = <<>> THEN <<>> ELSE resp.magnets[Len(resp.magnets)]

\* get_magnet_link: <<>> stands for None
get_magnet_link(resp) ==
    IF resp.kind # "ok" THEN <<>>
    ELSE IF resp.magnets = <<>> THEN <<>> ELSE resp.magnets[1]

\* ------------------------------------------------------------ messages
\* callback_data is head followed by tail: "page:" + "1", "start_search" + ""
Button(label, head, tail) == [label |-> label, data |-> [head |-> head, tail |-> tail]]

\* a message of the chat: which text it shows (text names the template, the
\* other fields are what the template is filled with) and its inline keyboard
Msg(text, query, nums, lines, magnet, kb) ==
    [text |-> text, query |-> query, nums |-> nums, lines |-> lines,
     magnet |-> magnet, kb |-> kb]

Plain(text) == Msg(text, <<>>, <<>>, <<>>, <<>>, <<>>)

\* one line of a result page or of a magnet view; the shortened title that
\* show_results_page computes is not what it puts into the line
ResultLine(i, result) ==
    [num |-> i + 1, title |-> result.title, size |-> result.size,
     seeders |-> result.seeders, leechers |-> result.leechers]

\* the keyboard with Next offered up to and including the last item
results_keyboard_inclusive(results, page, start_idx, end_idx, page_results) ==
    [j \in 1..Len(page_results) |->
        Button("Magnet Link", "get_magnet:", FormatInt(start_idx + j - 1))]
    \o (IF page > 0 THEN <<Button("Previous", "page:", FormatInt(page - 1))>> ELSE <<>>)
    \o (IF end_idx <= Len(results) THEN <<Button("Next", "page:", FormatInt(page + 1))>> ELSE <<>>)
    \o <<Button("New Search", "start_search", <<>>)>>

\* the keyboard of a result page: one select button per shown item, then the
\* navigation row, then New Search
results_keyboard(results, page, start_idx, end_idx, page_results) ==
    [j \in 1..Len(page_results) |->
        Button("Magnet Link", "get_magnet:", FormatInt(start_idx + j - 1))]
    \o (IF page > 0 THEN <<Button("Previous", "page:", FormatInt(page - 1))>> ELSE <<>>)
    \o (IF end_idx < Len(results) THEN <<Button("Next", "page:", FormatInt(page + 1))>> ELSE <<>>)
    \o <<Button("New Search", "start_search", <<>>)>>

\* show_results_page: what the edited message shows afterwards
show_results_page(ud, page) ==
    LET results == Get(ud, "search_results", <<>>)
        query   == Get(ud, "search_query", <<>>)
    IN  IF results = <<>> THEN Plain("No results to display.")
        ELSE LET start_idx    == page * per_page
                 end_idx      == Min(start_idx + per_page, Len(results))
                 page_results == PySlice(results, start_idx, end_idx)
             IN  Msg("Search Results for", query,
                     <<page + 1, start_idx + 1, end_idx, Len(results)>>,
                     [j \in 1..Len(page_results) |->
                         ResultLine(start_idx + j - 1, page_results[j])],
                     <<>>,
                     results_keyboard(results, page, start_idx, end_idx, page_results))

\* --------------------------------------------------- DatabaseManager
\* db is [users, search_history, downloads], each collection the sequence of
\* its documents; fault names the driver call that raises during the handler
\* ("none": every call succeeds).  A users document holds the profile, its
\* timestamps and the two counters; datetime.now() reads env.now.
Ok(d) == [db |-> d, raised |-> FALSE]
Raise(d) == [db |-> d, raised |-> TRUE]

\* the position of the first users document with this user_id, 0 without one
find_user(users, user_id) ==
    IF \E i \in 1..Len(users) : users[i].user_id = user_id
    THEN CHOOSE i \in 1..Len(users) :
             /\ users[i].user_id = user_id
             /\ \A j \in 1..(i - 1) : users[j].user_id # user_id
    ELSE 0

\* update_one({"user_id": user_id}, {"$inc": {field: 1}}): the first matching
\* document, and nothing when there is none
inc_total_searches(users, user_id) ==
    LET i == find_user(users, user_id)
    IN  IF i = 0 THEN users ELSE [users EXCEPT ![i].total_searches = @ + 1]
inc_total_downloads(users, user_id) ==
    LET i == find_user(users, user_id)
    IN  IF i = 0 THEN users ELSE [users EXCEPT ![i].total_downloads = @ + 1]

\* an upsert that inserts a fresh document whether or not the user has one
upsert_user_inserting(users, user_id, username, first_name, last_name, now) ==
    Append(users, [user_id |-> user_id, username |-> username,
                   first_name |-> first_name, last_name |-> last_name,
                   last_seen |-> now, updated_at |-> now, created_at |-> now,
                   total_searches |-> 0, total_downloads |-> 0, is_active |-> TRUE])

\* update_one({"user_id": user_id}, {"$set": ..., "$setOnInsert": ...},
\* upsert=True)
upsert_user(users, user_id, username, first_name, last_name, now) ==
    LET i == find_user(users, user_id)
    IN  IF i = 0
        THEN Append(users, [user_id |-> user_id, username |-> username,
                            first_name |-> first_name, last_name |-> last_name,
                            last_seen |-> now, updated_at |-> now, created_at |-> now,
                            total_searches |-> 0, total_downloads |-> 0,
                            is_active |-> TRUE])
        ELSE [users EXCEPT ![i].user_id = user_id, ![i].username = username,
                           ![i].first_name = first_name, ![i].last_name = last_name,
                           ![i].last_seen = now, ![i].updated_at = now]

create_or_update_user(d, user_id, username, first_name, last_name, fault) ==
    IF fault = "users.update_one(upsert)" THEN Raise(d)
    ELSE LET upserted ==
                 [d EXCEPT !.users =
                     upsert_user(@, user_id, username, first_name, last_name, env.now)]
         IN  IF fault = "users.find_one" THEN Raise(upserted) ELSE Ok(upserted)

\* save_search storing its default count whatever count it is given
save_search_default_count(d, user_id, query, results_count, fault) ==
    IF fault = "search_history.insert_one" THEN Raise(d)
    ELSE LET inserted ==
                 [d EXCEPT !.search_history =
                     Append(@, [user_id |-> user_id, query |-> query, results_count |-> 0])]
         IN  IF fault = "users.update_one(total_searches)" THEN Raise(inserted)
             ELSE Ok([inserted EXCEPT !.users = inc_total_searches(@, user_id)])

save_search(d, user_id, query, results_count, fault) ==
    IF fault = "search_history.insert_one" THEN Raise(d)
    ELSE LET inserted ==
                 [d EXCEPT !.search_history =
                     Append(@, [user_id |-> user_id, query |-> query,
                                results_count |-> results_count])]
         IN  IF fault = "users.update_one(total_searches)" THEN Raise(inserted)
             ELSE Ok([inserted EXCEPT !.users = inc_total_searches(@, user_id)])

\* save_download without its update of the user's total
save_download_uncounted(d, user_id, title, magnet_link, fault) ==
    IF fault = "downloads.insert_one" THEN Raise(d)
    ELSE LET inserted ==
                 [d EXCEPT !.downloads =
                     Append(@, [user_id |-> user_id, title |-> title,
                                magnet_link |-> magnet_link])]
         IN  IF fault = "users.update_one(total_downloads)" THEN Raise(inserted)
             ELSE Ok(inserted)

save_download(d, user_id, title, magnet_link, fault) ==
    IF fault = "downloads.insert_one" THEN Raise(d)
    ELSE LET inserted ==
                 [d EXCEPT !.downloads =
                     Append(@, [user_id |-> user_id, title |-> title,
                                magnet_link |-> magnet_link])]
         IN  IF fault = "users.update_one(total_downloads)" THEN Raise(inserted)
             ELSE Ok([inserted EXCEPT !.users = inc_total_downloads(@, user_id)])

\* get_user_stats: found = FALSE stands for the empty dict
get_user_stats(d, user_id, fault) ==
    IF fault = "users.find_one" THEN [raised |-> TRUE, found |-> FALSE, nums |-> <<>>]
    ELSE LET i == find_user(d.users, user_id)
         IN  IF i = 0
             THEN [raised |-> FALSE, found |-> FALSE, nums |-> <<>>]
             ELSE IF fault = "count_documents"
                  THEN [raised |-> TRUE, found |-> FALSE, nums |-> <<>>]
                  ELSE [raised |-> FALSE, found |-> TRUE,
                        nums |-> <<d.users[i].total_searches,
                                   d.users[i].total_downloads>>]

\* get_user_search_history: the user's records, newest first
RECURSIVE newest_first(_, _)
newest_first(history, user_id) ==
    IF history = <<>> THEN <<>>
    ELSE LET rest == newest_first(SubSeq(history, 1, Len(history) - 1), user_id)
             rec  == history[Len(history)]
         IN  IF rec.user_id = user_id THEN <<rec>> \o rest ELSE rest

get_user_search_history(d, user_id, limit, fault) ==
    IF fault = "search_history.find" THEN [raised |-> TRUE, list |-> <<>>]
    ELSE [raised |-> FALSE,
          list |-> PySlice(newest_first(d.search_history, user_id), 0, limit)]

\* ------------------------------------------------------------ handlers
\* What one handler run leaves behind: the user's user_data (ud), the chat's
\* keyboard messages (ms), the database, the GET requests it issued, the
\* texts it showed (sent or edited in, in order) and whether it raised into
\* the dispatcher.
Outcome(ud, ms, d, http, replies, raised) ==
    [ud |-> ud, ms |-> ms, db |-> d, http |-> http, replies |-> replies,
     raised |-> raised]

\* the error handler logging only
error_handler_silent(o) == [o EXCEPT !.raised = TRUE]

\* an exception leaving a handler reaches error_handler, which logs it and
\* replies with the apology
error_handler(o) ==
    [o EXCEPT !.replies = Append(@, "Oops! Something went wrong."), !.raised = TRUE]

StartKeyboard ==
    <<Button("Start Searching", "start_search", <<>>), Button("My Stats", "user_stats", <<>>)>>
SearchKeyboard == <<Button("Start Searching", "start_search", <<>>)>>

\* start (help_command calls it)
start(ud, ms, d, user_id, fault) ==
    LET cu == create_or_update_user(d, user_id, env.profile.username,
                                    env.profile.first_name, env.profile.last_name, fault)
    IN  IF cu.raised THEN error_handler(Outcome(ud, ms, cu.db, <<>>, <<>>, FALSE))
        ELSE Outcome(ud, Append(ms, Msg("Nyaa.si Search Bot", <<>>, <<>>, <<>>, <<>>, StartKeyboard)),
                     cu.db, <<>>, <<"Nyaa.si Search Bot">>, FALSE)

stats_command(ud, ms, d, user_id, fault) ==
    LET stats == get_user_stats(d, user_id, fault)
    IN  IF stats.raised THEN error_handler(Outcome(ud, ms, d, <<>>, <<>>, FALSE))
        ELSE IF ~stats.found
             THEN Outcome(ud, ms, d, <<>>, <<"No statistics available.">>, FALSE)
             ELSE Outcome(ud, Append(ms, Msg("Your Statistics", <<>>, stats.nums, <<>>, <<>>, SearchKeyboard)),
                          d, <<>>, <<"Your Statistics">>, FALSE)

history_command(ud, ms, d, user_id, fault) ==
    LET history == get_user_search_history(d, user_id, 10, fault)
    IN  IF history.raised THEN error_handler(Outcome(ud, ms, d, <<>>, <<>>, FALSE))
        ELSE IF history.list = <<>>
             THEN Outcome(ud, ms, d, <<>>, <<"No search history found.">>, FALSE)
             ELSE Outcome(ud, Append(ms, Msg("Your Recent Searches", <<>>,
                                            [j \in 1..Len(history.list) |-> history.list[j].results_count],
                                            <<>>, <<>>, SearchKeyboard)),
                          d, <<>>, <<"Your Recent Searches">>, FALSE)

\* the session a successful search stores
store_search(ud, results, query) ==
    Put(Put(Put(ud, "search_results", results), "search_query", query), "current_page", 0)

search_handler(ud, ms, d, user_id, text, resp, fault) ==
    LET query == strip(text)
    IN  IF query = <<>>
        THEN Outcome(ud, ms, d, <<>>, <<"Please provide a search query!">>, FALSE)
        ELSE
        LET cu == create_or_update_user(d, user_id, env.profile.username,
                                        env.profile.first_name, env.profile.last_name,
                                        fault)
        IN  IF cu.raised THEN error_handler(Outcome(ud, ms, cu.db, <<>>, <<>>, FALSE))
            ELSE
            LET search_msg == Len(ms) + 1
                ms1     == Append(ms, Plain("Searching nyaa.si..."))
                http    == <<search_url(query, 1)>>
                found   == search_nyaa(resp)
                results == found.list
            IN  IF found.none \/ results = <<>>
                THEN LET nores == Plain("No results found or search failed. Please try again.")
                         ms2   == [ms1 EXCEPT ![search_msg] = nores]
                         sv    == save_search(cu.db, user_id, query, 0, fault)
                         o     == Outcome(ud, ms2, sv.db, http,
                                          <<"Searching nyaa.si...", nores.text>>, FALSE)
                     IN  IF sv.raised THEN error_handler(o) ELSE o
                ELSE LET sv == save_search(cu.db, user_id, query, Len(results), fault)
                     IN  IF sv.raised
                         THEN error_handler(Outcome(ud, ms1, sv.db, http,
                                                    <<"Searching nyaa.si...">>, FALSE))
                         ELSE LET ud1  == store_search(ud, results, query)
                                  page == show_results_page(ud1, 0)
                              IN  Outcome(ud1, [ms1 EXCEPT ![search_msg] = page], sv.db, http,
                                          <<"Searching nyaa.si...", page.text>>, FALSE)

\* the Back to Results button of both magnet views
back_button(ud) ==
    Button("Back to Results", "page:", FormatInt(Get(ud, "current_page", 0)))

\* the message shown while the detail page is fetched
loading_view(result_idx, result) ==
    Msg("Getting magnet link for", <<>>, <<>>, <<ResultLine(result_idx, result)>>, <<>>, <<>>)

\* the handler after the fetch, storing the fetched item's index as the page
get_magnet_finish_moving(ud, ms, d, user_id, m, result_idx, result, shape, fault) ==
    LET ud1     == Put(ud, "current_page", result_idx)
        magnet_link == get_magnet_link(DetailPage(result.url, shape))
    IN  IF magnet_link = <<>>
        THEN Outcome(ud1, [ms EXCEPT ![m] = Msg("Failed to get magnet link!", <<>>, <<>>, <<>>,
                                                <<>>, <<back_button(ud1)>>)],
                     d, <<result.url>>, <<"Failed to get magnet link!">>, FALSE)
        ELSE LET sd == save_download(d, user_id, result.title, magnet_link, fault)
             IN  IF sd.raised
                 THEN error_handler(Outcome(ud1, ms, sd.db, <<result.url>>, <<>>, FALSE))
                 ELSE Outcome(ud1, [ms EXCEPT ![m] =
                                       Msg("Magnet Link Retrieved!", <<>>, <<>>,
                                           <<ResultLine(result_idx, result)>>, magnet_link,
                                           <<back_button(ud1),
                                             Button("New Search", "start_search", <<>>)>>)],
                              sd.db, <<result.url>>, <<"Magnet Link Retrieved!">>, FALSE)

\* the handler after the fetch, asking the site a second time when the first
\* request gave no link
get_magnet_finish_retrying(ud, ms, d, user_id, m, result_idx, result, shape, fault) ==
    LET magnet_link == get_magnet_link(DetailPage(result.url, shape))
    IN  IF magnet_link = <<>>
        THEN Outcome(ud, [ms EXCEPT ![m] = Msg("Failed to get magnet link!", <<>>, <<>>, <<>>,
                                               <<>>, <<back_button(ud)>>)],
                     d, <<result.url, result.url>>, <<"Failed to get magnet link!">>, FALSE)
        ELSE LET sd == save_download(d, user_id, result.title, magnet_link, fault)
             IN  IF sd.raised
                 THEN error_handler(Outcome(ud, ms, sd.db, <<result.url>>, <<>>, FALSE))
                 ELSE Outcome(ud, [ms EXCEPT ![m] =
                                      Msg("Magnet Link Retrieved!", <<>>, <<>>,
                                          <<ResultLine(result_idx, result)>>, magnet_link,
                                          <<back_button(ud),
                                            Button("New Search", "start_search", <<>>)>>)],
                              sd.db, <<result.url>>, <<"Magnet Link Retrieved!">>, FALSE)

\* get_magnet_handler from the await of get_magnet_link on: ud, ms and d are
\* read when the fetch completes, result and result_idx were bound before it;
\* m is the loading message, shape tells what the site serves
get_magnet_finish(ud, ms, d, user_id, m, result_idx, result, shape, fault) ==
    LET line    == <<ResultLine(result_idx, result)>>
        http    == <<result.url>>
        magnet_link == get_magnet_link(DetailPage(result.url, shape))
    IN  IF magnet_link = <<>>
        THEN LET failed == Msg("Failed to get magnet link!", <<>>, <<>>, <<>>, <<>>,
                               <<back_button(ud)>>)
             IN  Outcome(ud, [ms EXCEPT ![m] = failed], d, http, <<failed.text>>, FALSE)
        ELSE LET sd == save_download(d, user_id, result.title, magnet_link, fault)
             IN  IF sd.raised
                 THEN error_handler(Outcome(ud, ms, sd.db, http, <<>>, FALSE))
                 ELSE LET shown == Msg("Magnet Link Retrieved!", <<>>, <<>>, line, magnet_link,
                                       <<back_button(ud),
                                         Button("New Search", "start_search", <<>>)>>)
                      IN  Outcome(ud, [ms EXCEPT ![m] = shown], sd.db, http,
                                  <<shown.text>>, FALSE)

\* a select handler that keeps the link it retrieved in the session and shows
\* it again without asking the site
get_magnet_handler_cached(ud, ms, d, user_id, m, result_idx, shape, fault) ==
    LET results == Get(ud, "search_results", <<>>)
        cached  == Get(ud, "magnet_link", <<>>)
    IN  IF result_idx >= Len(results)
        THEN Outcome(ud, [ms EXCEPT ![m] = Plain("Invalid selection!")], d, <<>>,
                     <<"Invalid selection!">>, FALSE)
        ELSE IF PyIndexRaises(results, result_idx)
        THEN error_handler(Outcome(ud, ms, d, <<>>, <<>>, FALSE))
        ELSE IF cached # <<>>
        THEN Outcome(ud, [ms EXCEPT ![m] =
                             Msg("Magnet Link Retrieved!", <<>>, <<>>,
                                 <<ResultLine(result_idx, PyIndex(results, result_idx))>>,
                                 cached, <<back_button(ud)>>)],
                     d, <<>>, <<"Magnet Link Retrieved!">>, FALSE)
        ELSE
        LET result  == PyIndex(results, result_idx)
            loading == loading_view(result_idx, result)
            o       == get_magnet_finish(ud, [ms EXCEPT ![m] = loading], d, user_id, m,
                                         result_idx, result, shape, fault)
        IN  [o EXCEPT !.replies = <<loading.text>> \o @,
                      !.ud = IF o.raised THEN @
                             ELSE Put(@, "magnet_link", o.ms[m].magnet)]

\* m is the message the pressed button belongs to; handled in one piece, the
\* fetch completes in the state it began in
get_magnet_handler(ud, ms, d, user_id, m, result_idx, shape, fault) ==
    LET results == Get(ud, "search_results", <<>>)
    IN  IF result_idx >= Len(results)
        THEN Outcome(ud, [ms EXCEPT ![m] = Plain("Invalid selection!")], d, <<>>,
                     <<"Invalid selection!">>, FALSE)
        ELSE IF PyIndexRaises(results, result_idx)
        THEN error_handler(Outcome(ud, ms, d, <<>>, <<>>, FALSE))
        ELSE
        LET result  == PyIndex(results, result_idx)
            loading == loading_view(result_idx, result)
            o       == get_magnet_finish(ud, [ms EXCEPT ![m] = loading], d, user_id, m,
                                         result_idx, result, shape, fault)
        IN  [o EXCEPT !.replies = <<loading.text>> \o @]

\* page navigation that also starts the session over
go_to_page_reset(ud, page) == Put(Put(ud, "current_page", page), "search_query", <<>>)

\* the "page:" branch stores the requested page before rendering it
go_to_page(ud, page) == Put(ud, "current_page", page)

button_handler(ud, ms, d, user_id, m, data, shape, fault) ==
    IF data.head = "start_search" /\ data.tail = <<>>
    THEN Outcome(ud, [ms EXCEPT ![m] = Plain("Ready to search!")], d, <<>>,
                 <<"Ready to search!">>, FALSE)
    ELSE IF data.head = "user_stats" /\ data.tail = <<>>
    THEN LET stats == get_user_stats(d, user_id, fault)
         IN  IF stats.raised THEN error_handler(Outcome(ud, ms, d, <<>>, <<>>, FALSE))
             ELSE IF ~stats.found
                  THEN Outcome(ud, [ms EXCEPT ![m] = Plain("No statistics available.")], d,
                               <<>>, <<"No statistics available.">>, FALSE)
                  ELSE Outcome(ud, [ms EXCEPT ![m] = Msg("Your Statistics", <<>>, stats.nums,
                                                         <<>>, <<>>, SearchKeyboard)],
                               d, <<>>, <<"Your Statistics">>, FALSE)
    ELSE IF data.head = "page:"
    THEN IF IntRaises(data.tail) THEN error_handler(Outcome(ud, ms, d, <<>>, <<>>, FALSE))
         ELSE LET page == ParseInt(data.tail)
                  ud1  == go_to_page(ud, page)
                  view == show_results_page(ud1, page)
              IN  Outcome(ud1, [ms EXCEPT ![m] = view], d, <<>>, <<view.text>>, FALSE)
    ELSE IF data.head = "get_magnet:"
    THEN IF IntRaises(data.tail) THEN error_handler(Outcome(ud, ms, d, <<>>, <<>>, FALSE))
         ELSE get_magnet_handler(ud, ms, d, user_id, m, ParseInt(data.tail), shape, fault)
    ELSE Outcome(ud, ms, d, <<>>, <<>>, FALSE)

\* ----------------------------------------------------------- dispatcher
vars == <<user_data, msgs, db, last, last_search, updates, site, inflight, env>>

NoData == [head |-> "", tail |-> <<>>]
NoSite == Response("", <<>>, <<>>)

Handled(op, u, m, data, text, o) ==
    [op |-> op, user |-> u, msg |-> m, data |-> data, text |-> text,
     http |-> o.http, replies |-> o.replies, raised |-> o.raised]

\* the profile Telegram reports for the sender of an update
Profile(name) ==
    [username |-> name, first_name |-> <<"first", name>>, last_name |-> <<"last", name>>]

\* the bot at work: its startup job has connected the database, no request
\* has created the HTTP session yet, the cleanup job is an hour away
Running ==
    [session |-> "none", conn |-> "connected", now |-> 0, profile |-> Profile("a"),
     utc_day |-> 1, local_day |-> 1, admins |-> {}]

Init ==
    /\ user_data = [u \in Users |-> <<>>]
    /\ msgs = [u \in Users |-> <<>>]
    /\ db = [users |-> <<>>, search_history |-> <<>>, downloads |-> <<>>]
    /\ last = [op |-> "none", user |-> 0, msg |-> 0, data |-> NoData, text |-> <<>>,
               http |-> <<>>, replies |-> <<>>, raised |-> FALSE]
    /\ last_search = [u \in Users |-> [made |-> FALSE, query |-> <<>>, results |-> <<>>]]
    /\ updates = 0
    /\ site = NoSite
    /\ inflight = [u \in Users |-> <<>>]
    /\ env = Running

\* init_session, called before each request: the session is created when
\* nyaa_bot.session is None, and is otherwise left as it is
init_session(session, http) == IF http # <<>> /\ session = "none" THEN "open" ELSE session

\* the handler's outcome becomes the next state; m is the message a button
\* press belongs to, and for a command or a text message the message the
\* handler added to the chat (0 when it added none)
Commit(op, u, m, data, text, o) ==
    /\ updates < MaxUpdates
    /\ updates' = updates + 1
    /\ Len(o.ms) <= MaxMsgs
    /\ user_data' = [user_data EXCEPT ![u] = o.ud]
    /\ msgs' = [msgs EXCEPT ![u] = o.ms]
    /\ db' = o.db
    /\ env' = [env EXCEPT !.session = init_session(@, o.http)]
    /\ last' = Handled(op, u, IF m = 0 /\ Len(o.ms) > Len(msgs[u]) THEN Len(o.ms) ELSE m,
                        data, text, o)

\* the response served to the handler's request, when the specification
\* watches the site
Served(watch, o, resp) == IF ~watch THEN site ELSE IF o.http = <<>> THEN NoSite ELSE resp

\* the driver calls a handler reaches, each of which may raise
UserFaults == {"users.update_one(upsert)", "users.find_one"}
SearchFaults == {"search_history.insert_one", "users.update_one(total_searches)"}
StatsFaults == {"users.find_one", "count_documents"}
DownloadFaults == {"downloads.insert_one", "users.update_one(total_downloads)"}

StartCommand(u) ==
    \E fault \in {"none"} \cup UserFaults :
        /\ Commit("start", u, 0, NoData, <<>>, start(user_data[u], msgs[u], db, u, fault))
        /\ UNCHANGED <<last_search, site, inflight>>

HelpCommand(u) ==
    \E fault \in {"none"} \cup UserFaults :
        /\ Commit("help", u, 0, NoData, <<>>, start(user_data[u], msgs[u], db, u, fault))
        /\ UNCHANGED <<last_search, site, inflight>>

StatsCommand(u) ==
    \E fault \in {"none"} \cup StatsFaults :
        /\ Commit("stats", u, 0, NoData, <<>>,
                  stats_command(user_data[u], msgs[u], db, u, fault))
        /\ UNCHANGED <<last_search, site, inflight>>

HistoryCommand(u) ==
    \E fault \in {"none", "search_history.find"} :
        /\ Commit("history", u, 0, NoData, <<>>,
                  history_command(user_data[u], msgs[u], db, u, fault))
        /\ UNCHANGED <<last_search, site, inflight>>

\* what the site may answer to a search for q, by the name of the answers a
\* specification lets it give
AnswersTo(answers, q) ==
    CASE answers = "distinct" -> DistinctResponses(q)
      [] answers = "short" -> ShortResponses(q)
      [] answers = "brief" -> BriefResponses(q)
      [] answers = "titled" -> TitledResponses(q)
      [] answers = "table" -> {site}

\* a text message that is not a command, answered by one of the answers
\* named; the site is only asked when the query is not empty and the user
\* record was written
SearchUpdate(u, answers, watch) ==
    \E text \in Texts :
    \E fault \in {"none"} \cup (IF strip(text) = <<>> THEN {} ELSE UserFaults \cup SearchFaults) :
    \E resp \in (IF strip(text) = <<>> \/ fault \in UserFaults
                 THEN {Response("error", <<>>, <<>>)}
                 ELSE AnswersTo(answers, strip(text))) :
        LET o == search_handler(user_data[u], msgs[u], db, u, text, resp, fault)
        IN  /\ Commit("search", u, 0, NoData, text, o)
            /\ last_search' =
                 IF o.http = <<>> THEN last_search
                 ELSE [last_search EXCEPT ![u] =
                          [made |-> TRUE, query |-> strip(text),
                           results |-> search_nyaa(resp).list]]
            /\ site' = Served(watch, o, resp)
            /\ UNCHANGED inflight

TextMessage(u) == SearchUpdate(u, "distinct", FALSE)

\* a callback query for message m with payload data; the detail page is only
\* fetched, and the database only reached, by some payloads
CallbackUpdate(u, m, data, watch) ==
    \E shape \in (IF data.head # "get_magnet:" THEN {[kind |-> "error", n |-> 0]}
                  ELSE IF watch THEN BodiedShapes ELSE DistinctShapes) :
    \E fault \in {"none"} \cup (IF data.head = "user_stats" THEN StatsFaults
                                ELSE IF data.head = "get_magnet:" /\ shape.kind = "ok"
                                        /\ shape.n > 0
                                     THEN DownloadFaults ELSE {}) :
        LET o == button_handler(user_data[u], msgs[u], db, u, m, data, shape, fault)
        IN  /\ Commit("button", u, m, data, <<>>, o)
            /\ site' = Served(watch, o, IF o.http = <<>> THEN NoSite
                                        ELSE DetailPage(o.http[1], shape))
            /\ UNCHANGED <<last_search, inflight>>

Callback(u, m, data) == CallbackUpdate(u, m, data, FALSE)

\* the user presses a button of a message of the chat, old or new
PressButton(u) ==
    \E m \in 1..Len(msgs[u]) :
    \E b \in 1..Len(msgs[u][m].kb) :
        Callback(u, m, msgs[u][m].kb[b].data)

\* a callback query whose payload the client wrote itself: a negative or a
\* non-numeric argument, or an action the bot never offers
RawPayloads ==
    {[head |-> h, tail |-> t] :
        h \in {"page:", "get_magnet:"},
        t \in {FormatInt(0 - n) : n \in 1..MaxRawArg} \cup {<<"x">>}}
    \cup {[head |-> "settings", tail |-> <<>>]}

RawCallback(u) ==
    \E m \in 1..Len(msgs[u]) :
    \E data \in RawPayloads :
        Callback(u, m, data)

\* what a user can do through the chat's own interface
NextUI ==
    \E u \in Users :
        \/ StartCommand(u)
        \/ HelpCommand(u)
        \/ StatsCommand(u)
        \/ HistoryCommand(u)
        \/ TextMessage(u)
        \/ PressButton(u)

Next ==
    \E u \in Users :
        \/ StartCommand(u)
        \/ HelpCommand(u)
        \/ StatsCommand(u)
        \/ HistoryCommand(u)
        \/ TextMessage(u)
        \/ PressButton(u)
        \/ RawCallback(u)

SpecUI == Init /\ [][NextUI]_vars
Spec == Init /\ [][Next]_vars

\* ------------------------------------------------- searching and browsing
\* with the site watched: what it served to the last request is kept in site
WatchedSearch(u) == SearchUpdate(u, "short", TRUE)

WatchedPress(u) ==
    \E m \in 1..Len(msgs[u]) :
    \E b \in 1..Len(msgs[u][m].kb) :
        CallbackUpdate(u, m, msgs[u][m].kb[b].data, TRUE)

NextSite ==
    \E u \in Users :
        \/ StartCommand(u)
        \/ HelpCommand(u)
        \/ StatsCommand(u)
        \/ HistoryCommand(u)
        \/ WatchedSearch(u)
        \/ WatchedPress(u)

SpecSite == Init /\ [][NextSite]_vars

\* --------------------------------------------- long lists and long titles
TitledSearch(u) == SearchUpdate(u, "titled", FALSE)

\* the user presses Previous, Next or Back to Results
PressPage(u) ==
    \E m \in 1..Len(msgs[u]) :
    \E b \in 1..Len(msgs[u][m].kb) :
        /\ msgs[u][m].kb[b].data.head = "page:"
        /\ Callback(u, m, msgs[u][m].kb[b].data)

NextPages == \E u \in Users : TitledSearch(u) \/ PressPage(u)

SpecPages == Init /\ [][NextPages]_vars

\* ------------------------------------------------------ the parser alone
\* the table the site is about to serve is drawn at the start
InitTable ==
    /\ user_data = [u \in Users |-> <<>>]
    /\ msgs = [u \in Users |-> <<>>]
    /\ db = [users |-> <<>>, search_history |-> <<>>, downloads |-> <<>>]
    /\ last = [op |-> "none", user |-> 0, msg |-> 0, data |-> NoData, text |-> <<>>,
               http |-> <<>>, replies |-> <<>>, raised |-> FALSE]
    /\ last_search = [u \in Users |-> [made |-> FALSE, query |-> <<>>, results |-> <<>>]]
    /\ updates = 0
    /\ site \in {Response("ok", t, <<>>) : t \in Tables}
    /\ inflight = [u \in Users |-> <<>>]
    /\ env = Running

\* the first update is a search, answered with the table
TableSearch(u) ==
    /\ updates = 0
    /\ SearchUpdate(u, "table", FALSE)

NextTable == \E u \in Users : TableSearch(u)

SpecTable == InitTable /\ [][NextTable]_vars

\* ------------------------------------------- updates handled concurrently
\* With concurrent updates a handler gives way at each await.  The select
\* handler is split at its await of get_magnet_link: BeginFetch runs it up to
\* the request, CompleteFetch from the response on, and other updates of the
\* same user may be handled in between.
BeginFetch(u) ==
    \E m \in 1..Len(msgs[u]) :
    \E b \in 1..Len(msgs[u][m].kb) :
        LET data == msgs[u][m].kb[b].data
            rs   == Get(user_data[u], "search_results", <<>>)
        IN  /\ data.head = "get_magnet:"
            /\ ~IntRaises(data.tail)
            /\ ParseInt(data.tail) < Len(rs)
            /\ ~PyIndexRaises(rs, ParseInt(data.tail))
            /\ Len(inflight[u]) < MaxInflight
            /\ LET result_idx == ParseInt(data.tail)
                   result     == PyIndex(rs, result_idx)
                   loading    == loading_view(result_idx, result)
               IN  /\ Commit("fetch", u, m, data, <<>>,
                             Outcome(user_data[u], [msgs[u] EXCEPT ![m] = loading], db,
                                     <<result.url>>, <<loading.text>>, FALSE))
                   /\ inflight' = [inflight EXCEPT ![u] =
                                      Append(@, [msg |-> m, result_idx |-> result_idx,
                                                 result |-> result])]
                   /\ UNCHANGED <<last_search, site>>

CompleteFetch(u) ==
    \E k \in 1..Len(inflight[u]) :
    \E shape \in DetailShapes :
    \E fault \in {"none"} \cup (IF shape.kind = "ok" /\ shape.n > 0 THEN DownloadFaults ELSE {}) :
        LET f == inflight[u][k]
        IN  /\ Commit("fetched", u, f.msg,
                      [head |-> "get_magnet:", tail |-> FormatInt(f.result_idx)], <<>>,
                      get_magnet_finish(user_data[u], msgs[u], db, u, f.msg, f.result_idx,
                                        f.result, shape, fault))
            /\ inflight' = [inflight EXCEPT ![u] =
                               SubSeq(@, 1, k - 1) \o SubSeq(@, k + 1, Len(@))]
            /\ UNCHANGED <<last_search, site>>

NextAsync ==
    \E u \in Users :
        \/ TextMessage(u)
        \/ PressPage(u)
        \/ BeginFetch(u)
        \/ CompleteFetch(u)

SpecAsync == Init /\ [][NextAsync]_vars

\* ------------------------------------------------------------ session
\* the SearchSession of user u as the handlers read it
results(u) == Get(user_data[u], "search_results", <<>>)
current_page(u) == Get(user_data[u], "current_page", 0)
search_query(u) == Get(user_data[u], "search_query", <<>>)

\* the update handled last
IsSearch == last.op = "search" /\ \E i \in 1..Len(last.text) : last.text[i] # " "
IsBlankText == last.op = "search" /\ \A i \in 1..Len(last.text) : last.text[i] = " "
IsPress(head) ==
    last.op = "button" /\ last.data.head = head /\ ~IntRaises(last.data.tail)
Arg == ParseInt(last.data.tail)
Showed(text) == \E i \in 1..Len(last.replies) : last.replies[i] = text
View == msgs[last.user][last.msg]

\* page n is a page of a list of total results
ValidPage(n, total) == 0 <= n * 5 /\ n * 5 < total

\* ------------------------------------------------------------- claims

\* C1: in every state reached by searches and presses of rendered buttons,
\* a session with results has 0 <= current_page * 5 < len(results).
C1_PageInRange ==
    \A u \in Users :
        Len(results(u)) > 0 => ValidPage(current_page(u), Len(results(u)))

\* C2: once a search with a non-empty query has completed, the session holds
\* that search's query and result list, and current_page is 0.
C2_SearchReplacesSession ==
    (IsSearch /\ ~last.raised) =>
        /\ search_query(last.user) = last_search[last.user].query
        /\ results(last.user) = last_search[last.user].results
        /\ current_page(last.user) = 0

\* the page the handler rendered, when it rendered a result page
RenderedPage == IF last.op = "search" THEN 0 ELSE Arg
RenderedResults ==
    /\ \/ IsSearch
       \/ IsPress("page:")
    /\ ~last.raised
    /\ Showed("Search Results for")

Labelled(kb, label) == SelectSeq(kb, LAMBDA b : b.label = label)

\* C3: rendering a valid page k of N results shows the items k*5 ..
\* min(k*5+5, N) - 1 in order, one select button per item carrying its global
\* index, Previous (page k-1) iff k > 0 and Next (page k+1) iff (k+1)*5 < N.
C3_PageContents ==
    (RenderedResults /\ ValidPage(RenderedPage, Len(results(last.user)))) =>
        LET k  == RenderedPage
            rs == results(last.user)
            N  == Len(rs)
            lo == k * 5
            hi == IF k * 5 + 5 < N THEN k * 5 + 5 ELSE N
            select == Labelled(View.kb, "Magnet Link")
            prev   == Labelled(View.kb, "Previous")
            next   == Labelled(View.kb, "Next")
        IN  /\ Len(View.lines) = hi - lo
            /\ \A j \in 1..(hi - lo) :
                  /\ View.lines[j].num = lo + j
                  /\ View.lines[j].title = rs[lo + j].title
                  /\ View.lines[j].size = rs[lo + j].size
                  /\ View.lines[j].seeders = rs[lo + j].seeders
                  /\ View.lines[j].leechers = rs[lo + j].leechers
            /\ Len(select) = hi - lo
            /\ \A j \in 1..(hi - lo) :
                  /\ select[j].data.head = "get_magnet:"
                  /\ ParseInt(select[j].data.tail) = lo + j - 1
            /\ Len(prev) = (IF k > 0 THEN 1 ELSE 0)
            /\ \A j \in 1..Len(prev) :
                  prev[j].data.head = "page:" /\ ParseInt(prev[j].data.tail) = k - 1
            /\ Len(next) = (IF (k + 1) * 5 < N THEN 1 ELSE 0)
            /\ \A j \in 1..Len(next) :
                  next[j].data.head = "page:" /\ ParseInt(next[j].data.tail) = k + 1

\* the second page of a list of more than five results has been rendered
C3_Witness ==
    /\ RenderedResults
    /\ RenderedPage = 1
    /\ Len(results(last.user)) > 5
    /\ Len(View.lines) >= 1

\* C4: a press of a select button with index i fetches the detail page of
\* the result at position i of the user's most recent search.
C4_SelectsFromLatestSearch ==
    (IsPress("get_magnet:") /\ last.http # <<>>) =>
        /\ 0 <= Arg
        /\ Arg < Len(last_search[last.user].results)
        /\ last.http = <<last_search[last.user].results[Arg + 1].url>>

\* C5: every Previous, Next and Back to Results button a handler renders
\* carries a page n with 0 <= n*5 < len(results) of the session at that time.
C5_OfferedPagesValid ==
    (last.msg # 0 /\ ~last.raised) =>
        \A b \in 1..Len(View.kb) :
            View.kb[b].label \in {"Previous", "Next", "Back to Results"} =>
                ValidPage(ParseInt(View.kb[b].data.tail), Len(results(last.user)))

\* the same notions for the update being handled in a step
IsSearchStep == last'.op = "search" /\ \E i \in 1..Len(last'.text) : last'.text[i] # " "
IsBlankTextStep == last'.op = "search" /\ \A i \in 1..Len(last'.text) : last'.text[i] = " "
IsPressStep(head) ==
    last'.op = "button" /\ last'.data.head = head /\ ~IntRaises(last'.data.tail)
StepArg == ParseInt(last'.data.tail)
StepShowed(text) == \E i \in 1..Len(last'.replies) : last'.replies[i] = text

\* the session fields of user u, present or not, are the same after the step
SameField(u, key) ==
    /\ (key \in DOMAIN user_data'[u]) = (key \in DOMAIN user_data[u])
    /\ key \in DOMAIN user_data[u] => user_data'[u][key] = user_data[u][key]

\* C6: only a search and page navigation change the session; page navigation
\* leaves query and results alone; select_result, start_search, user_stats
\* and the commands leave the whole session alone.
C6_SessionFrame ==
    [][\A u \in Users :
          /\ IsPressStep("page:") =>
                SameField(u, "search_query") /\ SameField(u, "search_results")
          /\ (last'.op # "search" /\ ~IsPressStep("page:")) => user_data'[u] = user_data[u]
          /\ last'.user # u => user_data'[u] = user_data[u]]_vars

\* a page press moved a session with a query and results to its second page
C6_Witness ==
    /\ IsPress("page:")
    /\ current_page(last.user) = 1
    /\ Len(results(last.user)) > 5
    /\ search_query(last.user) # <<>>

\* C7: a page request with n < 0 or n*5 >= len(results) raises nothing and
\* leaves current_page unchanged.
C7_BadPageIgnored ==
    [][\A u \in Users :
          (/\ last'.user = u
           /\ IsPressStep("page:")
           /\ ~ValidPage(StepArg, Len(results(u)))) =>
              ~last'.raised /\ SameField(u, "current_page")]_vars

\* C8: a select request with an index outside [0, len(results)) shows
\* 'invalid selection', issues no request, records no download and leaves
\* the session unchanged.
C8_BadSelectionRejected ==
    [][\A u \in Users :
          (/\ last'.user = u
           /\ IsPressStep("get_magnet:")
           /\ (StepArg < 0 \/ StepArg >= Len(results(u)))) =>
              /\ StepShowed("Invalid selection!")
              /\ last'.http = <<>>
              /\ db'.downloads = db.downloads
              /\ user_data'[u] = user_data[u]]_vars

\* C9: an empty or whitespace-only text gets the validation error and
\* nothing else: no request, no record, session unchanged.
C9_BlankTextRejected ==
    [][IsBlankTextStep =>
          /\ last'.replies = <<"Please provide a search query!">>
          /\ ~last'.raised
          /\ last'.http = <<>>
          /\ db' = db
          /\ user_data' = user_data
          /\ msgs' = msgs
          /\ last_search' = last_search]_vars

\* a whitespace-only text arrived while the user had a session
C9_Witness ==
    /\ IsBlankText
    /\ last.text # <<>>
    /\ Len(results(last.user)) > 0
    /\ Showed("Please provide a search query!")

\* the entry a search for last_search' would record
SearchEntry(u) ==
    [user_id |-> u, query |-> last_search'[u].query,
     results_count |-> Len(last_search'[u].results)]

Recorded(u) ==
    /\ db'.search_history = Append(db.search_history, SearchEntry(u))
    /\ last_search'[u].results = <<>> =>
          StepShowed("No results found or search failed. Please try again.")

C11_StaleFetchKeepsSession ==
    [][\A u \in Users :
          Len(inflight'[u]) < Len(inflight[u]) =>
              /\ SameField(u, "search_query")
              /\ SameField(u, "search_results")
              /\ SameField(u, "current_page")]_vars

\* a fetch completed after a later search had replaced the results it was
\* begun for: the fetched item is not among the session's results
C11_Witness ==
    /\ last.op = "fetched"
    /\ last.http # <<>>
    /\ last_search[last.user].made
    /\ results(last.user) = last_search[last.user].results
    /\ results(last.user) # <<>>
    /\ \A j \in 1..Len(results(last.user)) : results(last.user)[j].url # last.http[1]

\* C12: whether or not recording it in the database succeeds, a search that
\* found results stores the session and shows page 0, and a select press
\* whose fetch found a magnet link shows it; the user gets no error message.
C12_RecordingFailureHidden ==
    /\ (IsSearch /\ last.http # <<>> /\ last_search[last.user].results # <<>>) =>
          /\ ~last.raised
          /\ ~Showed("Oops! Something went wrong.")
          /\ Showed("Search Results for")
          /\ results(last.user) = last_search[last.user].results
          /\ search_query(last.user) = last_search[last.user].query
          /\ current_page(last.user) = 0
    /\ (IsPress("get_magnet:") /\ last.http # <<>>
        /\ ~Showed("Failed to get magnet link!")) =>
          /\ ~last.raised
          /\ ~Showed("Oops! Something went wrong.")
          /\ Showed("Magnet Link Retrieved!")
          /\ View.magnet # <<>>

C14_TitlesTruncated ==
    RenderedResults =>
        \A j \in 1..Len(View.lines) :
            LET full == results(last.user)[View.lines[j].num].title
            IN  View.lines[j].title =
                    IF Len(full) > 50 THEN SubSeq(full, 1, 50) \o <<".", ".", ".">>
                    ELSE full

\* the page just rendered lists exactly the results lo..hi, numbered lo..hi,
\* and has a Previous and a Next button as told
ShowsItems(lo, hi, has_prev, has_next) ==
    /\ Showed("Search Results for")
    /\ Len(View.lines) = hi - lo + 1
    /\ \A j \in 1..Len(View.lines) :
          /\ View.lines[j].num = lo + j - 1
          /\ View.lines[j].title = results(last.user)[lo + j - 1].title
    /\ (Labelled(View.kb, "Previous") # <<>>) = has_prev
    /\ (Labelled(View.kb, "Next") # <<>>) = has_next

\* C15: a search that returns 12 results shows items 1-5 with Next and no
\* Previous; going to page 1 shows items 6-10 with both buttons and sets
\* current_page to 1; going to page 2 shows items 11-12 with Previous only and
\* sets current_page to 2.
C15_TwelveResults ==
    /\ (IsSearch /\ ~last.raised /\ Len(last_search[last.user].results) = 12) =>
          /\ Len(results(last.user)) = 12
          /\ ShowsItems(1, 5, FALSE, TRUE)
    /\ (IsPress("page:") /\ Len(results(last.user)) = 12 /\ Arg = 1) =>
          /\ ShowsItems(6, 10, TRUE, TRUE)
          /\ current_page(last.user) = 1
    /\ (IsPress("page:") /\ Len(results(last.user)) = 12 /\ Arg = 2) =>
          /\ ShowsItems(11, 12, TRUE, FALSE)
          /\ current_page(last.user) = 2

\* the third page of twelve results was reached through Next and Next
C15_Witness ==
    /\ IsPress("page:")
    /\ Arg = 2
    /\ updates = 3
    /\ Len(results(last.user)) = 12
    /\ Len(View.lines) = 2
    /\ current_page(last.user) = 2

\* the payloads the bot understands: an action it offers, with an integer
\* argument where the action takes one
Recognized(data) ==
    \/ data.head \in {"start_search", "user_stats"} /\ data.tail = <<>>
    \/ data.head \in {"page:", "get_magnet:"} /\ ~IntRaises(data.tail)

\* C16: a button press whose payload is not a recognized action, a recognized
\* prefix with a non-integer argument included, raises no error, issues no
\* request and leaves the session unchanged.
C16_UnknownPayloadIgnored ==
    [][(last'.op = "button" /\ ~Recognized(last'.data)) =>
          /\ ~last'.raised
          /\ last'.http = <<>>
          /\ user_data' = user_data]_vars

\* the table the parser was given and the records it returned
IsDetailLink(a) == a.href # <<>> /\ a.href[1] = "/view/"
HasDetailLink(row) == \E k \in 1..Len(row.anchors) : IsDetailLink(row.anchors[k])
FirstDetailLink(row) ==
    row.anchors[CHOOSE k \in 1..Len(row.anchors) :
                    /\ IsDetailLink(row.anchors[k])
                    /\ \A k2 \in 1..(k - 1) : ~IsDetailLink(row.anchors[k2])]
KeptRows == SelectSeq(site.rows, LAMBDA row : HasDetailLink(row) /\ ~row.raises)
Found == last_search[last.user].results
ParsedTable == IsSearch /\ last.http # <<>> /\ site.kind = "ok"

\* C17: the records a search returns are, in row order, one for each row of
\* the table that has a detail link and does not make the parser raise, with
\* the link's text as title and https://nyaa.si followed by its href as url;
\* the other rows are passed over and the rows after them still parsed.
C17_OneRecordPerDetailRow ==
    ParsedTable =>
        /\ Len(Found) = Len(KeptRows)
        /\ \A j \in 1..Len(KeptRows) :
              /\ Found[j].url = <<"https://nyaa.si">> \o FirstDetailLink(KeptRows[j]).href
              /\ Found[j].title = FirstDetailLink(KeptRows[j]).text

\* a table of a row without anchor, a row that raises and then a result row
\* gave one record
C17_Witness ==
    /\ ParsedTable
    /\ Len(site.rows) = 3
    /\ site.rows[1] = DecorationRow
    /\ site.rows[2].raises
    /\ HasDetailLink(site.rows[3]) /\ ~site.rows[3].raises
    /\ Len(Found) = 1
    /\ Showed("Search Results for")

\* C18: each record has the text of its row's 4th cell as size, or "Unknown"
\* when the row has no 4th cell, and the texts of the 6th and 7th cells as
\* seeders and leechers, or "0" when they are missing; a row with missing
\* cells still gives its record.
C18_MissingCellDefaults ==
    ParsedTable =>
        /\ Len(Found) = Len(KeptRows)
        /\ \A j \in 1..Len(KeptRows) :
              LET cells == KeptRows[j].cells
              IN  /\ Found[j].size = IF Len(cells) >= 4 THEN cells[4] ELSE <<"Unknown">>
                  /\ Found[j].seeders = IF Len(cells) >= 6 THEN cells[6] ELSE <<"0">>
                  /\ Found[j].leechers = IF Len(cells) >= 7 THEN cells[7] ELSE <<"0">>

\* rows of three, five and six cells gave records with the defaults
C18_Witness ==
    /\ ParsedTable
    /\ Len(site.rows) = 3
    /\ Len(site.rows[1].cells) = 3
    /\ Len(site.rows[2].cells) = 5
    /\ Len(site.rows[3].cells) = 6
    /\ Len(Found) = 3
    /\ Found[1].size = <<"Unknown">>
    /\ Found[2].size = <<"1 GiB">> /\ Found[2].seeders = <<"0">>
    /\ Found[3].seeders = <<"1">> /\ Found[3].leechers = <<"0">>

\* C19: when the search request fails or is answered with a non-200 status,
\* the search returns its failure value and the handler goes on as for an
\* empty list: the message shows 'no results / try again' and no result page.
C19_FailedSearchLooksEmpty ==
    (IsSearch /\ last.http # <<>> /\ site.kind \in {"error", "status"}) =>
        /\ Found = <<>>
        /\ Showed("No results found or search failed. Please try again.")
        /\ ~Showed("Search Results for")
        /\ View.text = "No results found or search failed. Please try again."
        /\ View.lines = <<>>
        /\ View.kb = <<>>

\* a search answered with a non-200 status, whose body held a result row, was
\* told to have found nothing
C19_Witness ==
    /\ IsSearch
    /\ site.kind = "status"
    /\ site.rows # <<>>
    /\ ~last.raised
    /\ last.replies = <<"Searching nyaa.si...",
                        "No results found or search failed. Please try again.">>

\* the select press handled in this step fetched a detail page; Null tells
\* whether get_magnet_link had to return None for what the site served
FetchStep == IsPressStep("get_magnet:") /\ last'.http # <<>>
Null == site'.kind # "ok" \/ site'.magnets = <<>>
StepView == msgs'[last'.user][last'.msg]
DownloadEntry(u) ==
    [user_id |-> u, title |-> results(u)[StepArg + 1].title, magnet_link |-> site'.magnets[1]]

\* what C20 says of a fetch that gave no magnet link, and of where the link
\* shown comes from
NullHandled ==
    /\ Null =>
          /\ ~last'.raised
          /\ last'.replies = <<"Getting magnet link for", "Failed to get magnet link!">>
          /\ StepView.magnet = <<>>
          /\ Labelled(StepView.kb, "Back to Results") # <<>>
          /\ db'.downloads = db.downloads
    /\ (~Null /\ ~last'.raised) =>
          /\ StepShowed("Magnet Link Retrieved!")
          /\ StepView.magnet = site'.magnets[1]

\* C20 as stated: get_magnet gives no link, and raises nothing, for a failed
\* request, a non-200 status or a page without magnet anchor, and the first
\* magnet anchor otherwise; without a link the user sees the failure message
\* with a way back and no download is recorded; each successful retrieval
\* records exactly one download.
C20_OneDownloadPerMagnet ==
    [][FetchStep =>
          /\ NullHandled
          /\ ~Null => db'.downloads = Append(db.downloads, DownloadEntry(last'.user))]_vars

\* C20 amended: the same, with one download recorded for each successful
\* retrieval whose downloads.insert_one does not raise, and none otherwise.
C20_OneDownloadUnlessInsertRaises ==
    [][FetchStep =>
          /\ NullHandled
          /\ ~Null =>
                \/ db'.downloads = Append(db.downloads, DownloadEntry(last'.user))
                \/ last'.raised /\ db'.downloads = db.downloads]_vars

\* of two magnet anchors the first was shown and recorded, once
C20_Witness ==
    /\ IsPress("get_magnet:")
    /\ ~last.raised
    /\ Len(site.magnets) = 2
    /\ View.magnet = site.magnets[1]
    /\ Len(db.downloads) = 1
    /\ db.downloads[1].magnet_link = site.magnets[1]

\* the select press handled in this step names a result of user u's list
ValidSelectStep(u) ==
    /\ last'.user = u
    /\ IsPressStep("get_magnet:")
    /\ 0 <= StepArg
    /\ StepArg < Len(results(u))

SessionKeys == {"search_results", "search_query", "current_page"}

\* C21: the magnet link is never cached: every valid select press issues one
\* fresh request for the detail page of the result it names, however often
\* the same result was selected before, and the session holds nothing but the
\* result list, the query and the page.
C21_MagnetNeverCached ==
    [][\A u \in Users :
          ValidSelectStep(u) =>
              /\ last'.http = <<results(u)[StepArg + 1].url>>
              /\ user_data'[u] = user_data[u]
              /\ DOMAIN user_data'[u] \subseteq SessionKeys]_vars

\* the same result has been selected twice, its link retrieved and its detail
\* page requested both times
C21_Witness ==
    /\ IsPress("get_magnet:")
    /\ ~last.raised
    /\ Len(db.downloads) = 2
    /\ db.downloads[1].title = db.downloads[2].title
    /\ last.http = <<results(last.user)[Arg + 1].url>>
    /\ View.text = "Magnet Link Retrieved!"

\* the request of the update handled last was not answered with a page
RequestFailed == last.http # <<>> /\ site.kind # "ok"

\* C22: no request to the site is retried: a search message causes at most
\* one search GET and a select press at most one detail-page GET, no other
\* update causes any, and when the request fails the user is told so by the
\* handler that made it, which issues no second request.  Requests are only
\* issued by handlers, so none follows until the next update of a user.
C22_NoRetry ==
    /\ Len(last.http) <= 1
    /\ last.http # <<>> => IsSearch \/ IsPress("get_magnet:")
    /\ (IsSearch /\ last.http # <<>>) => last.http = <<search_url(strip(last.text), 1)>>
    /\ (IsSearch /\ RequestFailed) =>
          Showed("No results found or search failed. Please try again.")
    /\ (IsPress("get_magnet:") /\ RequestFailed) =>
          /\ Showed("Failed to get magnet link!")
          /\ ~last.raised

\* a detail-page request failed: it was made once and the failure was shown
C22_Witness ==
    /\ IsPress("get_magnet:")
    /\ site.kind = "error"
    /\ Len(last.http) = 1
    /\ last.replies = <<"Getting magnet link for", "Failed to get magnet link!">>

\* the select press handled in this step was made on the newest message of
\* user u's chat while it displayed a result page, and it fetched: the page
\* was rendered by the latest search or after it
SelectFromNewest(u) ==
    /\ last'.user = u
    /\ FetchStep
    /\ ~last'.raised
    /\ last'.msg = Len(msgs[u])
    /\ msgs[u][last'.msg].text = "Search Results for"

\* C28: after a successful or failed select made from a displayed page k with
\* no search in between, the Back to Results button carries page k, and
\* pressing it re-renders exactly page k of the same list with
\* current_page = k.
C28_BackToDisplayedPage ==
    [][\A u \in Users :
          SelectFromNewest(u) =>
              LET m    == last'.msg
                  k    == msgs[u][m].nums[1] - 1
                  back == Labelled(StepView.kb, "Back to Results")
              IN  /\ Len(back) = 1
                  /\ back[1].data = [head |-> "page:", tail |-> FormatInt(k)]
                  /\ LET o == button_handler(user_data'[u], msgs'[u], db', u, m,
                                             back[1].data, [kind |-> "error", n |-> 0],
                                             "none")
                     IN  /\ Get(o.ud, "current_page", 0) = k
                         /\ o.ms[m] = msgs[u][m]]_vars

\* ------------------------------------------------------- a restarted bot
\* Application.builder() is given no persistence: when the process is started
\* again every context.user_data is empty, while the messages of the chats
\* keep their keyboards and the database keeps its documents.
Restart ==
    /\ \E u \in Users : user_data[u] # <<>>
    /\ user_data' = [u \in Users |-> <<>>]
    /\ inflight' = [u \in Users |-> <<>>]
    /\ last' = [op |-> "restart", user |-> 0, msg |-> 0, data |-> NoData, text |-> <<>>,
                http |-> <<>>, replies |-> <<>>, raised |-> FALSE]
    /\ env' = [env EXCEPT !.session = "none"]
    /\ UNCHANGED <<msgs, db, last_search, updates, site>>

NextRestart ==
    \/ \E u \in Users : TextMessage(u) \/ PressButton(u)
    \/ Restart

SpecRestart == Init /\ [][NextRestart]_vars

\* user u has no session: no search has stored anything since the start
NoSession(u) == user_data[u] = <<>>

\* C23: in the no-session state a go_to_page or select_result press raises
\* nothing, issues no request, shows 'No results to display.' or 'Invalid
\* selection!', and leaves the user without any session field.
C23_NoSessionPressHarmless ==
    [][\A u \in Users :
          (/\ last'.user = u
           /\ NoSession(u)
           /\ IsPressStep("page:") \/ IsPressStep("get_magnet:")) =>
              /\ ~last'.raised
              /\ last'.http = <<>>
              /\ StepShowed("No results to display.") \/ StepShowed("Invalid selection!")
              /\ user_data'[u] = <<>>]_vars

\* ------------------------------------------------- users and their records
\* A clock that advances and a profile that changes between updates; the
\* database holds the document of a user of an earlier run of the bot.
Names == {"a", "b"}
Earlier == 2
EarlierUser ==
    [user_id |-> Earlier, username |-> "e", first_name |-> <<"first", "e">>,
     last_name |-> <<"last", "e">>, last_seen |-> 0, updated_at |-> 0, created_at |-> 0,
     total_searches |-> 0, total_downloads |-> 0, is_active |-> TRUE]

InitUsers ==
    /\ user_data = [u \in Users |-> <<>>]
    /\ msgs = [u \in Users |-> <<>>]
    /\ db = [users |-> <<EarlierUser>>, search_history |-> <<>>, downloads |-> <<>>]
    /\ last = [op |-> "none", user |-> 0, msg |-> 0, data |-> NoData, text |-> <<>>,
               http |-> <<>>, replies |-> <<>>, raised |-> FALSE]
    /\ last_search = [u \in Users |-> [made |-> FALSE, query |-> <<>>, results |-> <<>>]]
    /\ updates = 0
    /\ site = NoSite
    /\ inflight = [u \in Users |-> <<>>]
    /\ env = Running

\* instants are only compared and copied, so no more of them are told apart
\* than updates have been handled
TimePasses ==
    /\ env.now < MaxClock
    /\ env.now < updates
    /\ env' = [env EXCEPT !.now = @ + 1]
    /\ UNCHANGED <<user_data, msgs, db, last, last_search, updates, site, inflight>>

ProfileChange ==
    \E name \in Names :
        /\ name # env.profile.username
        /\ env' = [env EXCEPT !.profile = Profile(name)]
        /\ UNCHANGED <<user_data, msgs, db, last, last_search, updates, site, inflight>>

BriefSearch(u) == SearchUpdate(u, "brief", FALSE)

NextUsers ==
    \/ \E u \in Users : StartCommand(u) \/ BriefSearch(u)
    \/ TimePasses
    \/ ProfileChange

SpecUsers == InitUsers /\ [][NextUsers]_vars

\* the users documents of user u
RecordsOf(users, u) == {i \in 1..Len(users) : users[i].user_id = u}

\* the step handled /start or /help for user u and its upsert did not raise
UpsertStep(u) ==
    /\ updates' = updates + 1
    /\ last'.user = u
    /\ last'.op \in {"start", "help"}
    /\ ~(last'.raised /\ db' = db)

\* C29: create_or_update_user on an existing user sets only username, first
\* and last name, last_seen and updated_at and leaves created_at and both
\* counters as they were; on a new user it creates exactly one document with
\* both counters 0; there is never more than one document per user_id.
C29_UpsertFrame ==
    [][\A u \in Users \cup {Earlier} :
          /\ Cardinality(RecordsOf(db'.users, u)) <= 1
          /\ UpsertStep(u) =>
                LET i == find_user(db.users, u)
                IN  IF i # 0
                    THEN db'.users =
                           [db.users EXCEPT ![i].username = env.profile.username,
                                            ![i].first_name = env.profile.first_name,
                                            ![i].last_name = env.profile.last_name,
                                            ![i].last_seen = env.now,
                                            ![i].updated_at = env.now]
                    ELSE /\ Len(db'.users) = Len(db.users) + 1
                         /\ SubSeq(db'.users, 1, Len(db.users)) = db.users
                         /\ db'.users[Len(db'.users)].user_id = u
                         /\ db'.users[Len(db'.users)].total_searches = 0
                         /\ db'.users[Len(db'.users)].total_downloads = 0
                         /\ db'.users[Len(db'.users)].created_at = env.now]_vars

\* a user who had searched came back later under another name: the document
\* kept its creation time and its count, beside the untouched document of the
\* earlier user
C29_Witness ==
    /\ last.op = "start"
    /\ ~last.raised
    /\ db.users[1] = EarlierUser
    /\ Len(db.users) = 2
    /\ \E i \in 1..2 :
          /\ db.users[i].user_id = last.user
          /\ db.users[i].total_searches = 1
          /\ db.users[i].created_at < db.users[i].last_seen
          /\ db.users[i].last_seen = env.now
          /\ db.users[i].username = "b"
          /\ db.users[i].first_name = <<"first", "b">>

\* -------------------------------------------------- counters and records
\* Two users search and retrieve magnet links in any order; only the handler
\* runs in which no database call raised are followed.
Crowd == {1, 2}

InitCrowd ==
    /\ user_data = [u \in Crowd |-> <<>>]
    /\ msgs = [u \in Crowd |-> <<>>]
    /\ db = [users |-> <<>>, search_history |-> <<>>, downloads |-> <<>>]
    /\ last = [op |-> "none", user |-> 0, msg |-> 0, data |-> NoData, text |-> <<>>,
               http |-> <<>>, replies |-> <<>>, raised |-> FALSE]
    /\ last_search = [u \in Crowd |-> [made |-> FALSE, query |-> <<>>, results |-> <<>>]]
    /\ updates = 0
    /\ site = NoSite
    /\ inflight = [u \in Crowd |-> <<>>]
    /\ env = Running

WrittenSearch(u) == BriefSearch(u) /\ ~last'.raised
WrittenPress(u) == PressButton(u) /\ ~last'.raised

NextCrowd == \E u \in Crowd : WrittenSearch(u) \/ WrittenPress(u)

SpecCrowd == InitCrowd /\ [][NextCrowd]_vars

\* how many documents of a collection belong to user u
CountOf(coll, u) == Cardinality({k \in 1..Len(coll) : coll[k].user_id = u})

\* C27: after any sequence of searches and magnet retrievals of any users, in
\* any order, whose database writes all succeeded, each user's total_searches
\* equals the number of that user's search_history records and
\* total_downloads the number of that user's downloads records.
C27_CountersMatchRecords ==
    \A u \in Crowd :
        LET i == find_user(db.users, u)
        IN  IF i = 0
            THEN CountOf(db.search_history, u) = 0 /\ CountOf(db.downloads, u) = 0
            ELSE /\ db.users[i].total_searches = CountOf(db.search_history, u)
                 /\ db.users[i].total_downloads = CountOf(db.downloads, u)

\* the searches of two users alternated, and the first of them retrieved a
\* link after the other's search
C27_Witness ==
    /\ Len(db.search_history) = 3
    /\ db.search_history[1].user_id = 1
    /\ db.search_history[2].user_id = 2
    /\ db.search_history[3].user_id = 1
    /\ Len(db.downloads) = 1
    /\ db.users[find_user(db.users, 1)].total_searches = 2
    /\ db.users[find_user(db.users, 1)].total_downloads = 1
    /\ db.users[find_user(db.users, 2)].total_searches = 1

\* ------------------------------------------------------- admin statistics
\* datetime.replace(day=day): ValueError unless the month has such a day
replace_day(day) == [raises |-> day \notin 1..31, day |-> day]

\* get_bot_stats: the cutoff of the active users is the UTC date with its day
\* replaced by the host's local day minus 7
get_bot_stats(d, fault) ==
    LET cutoff == replace_day(env.local_day - 7)
    IN  IF fault = "count_documents" \/ cutoff.raises
        THEN [raised |-> TRUE, nums |-> <<>>]
        ELSE [raised |-> FALSE,
              nums |-> <<Len(d.users), Len(d.search_history), Len(d.downloads)>>]

\* get_popular_searches: the cutoff is the UTC date with its day replaced by
\* that day minus days; the documents it matches are not told apart here
get_popular_searches(d, limit, days, fault) ==
    LET from_date == replace_day(env.utc_day - days)
    IN  [raised |-> from_date.raises \/ fault = "search_history.aggregate"]

admin_stats_command(ud, ms, d, user_id, fault) ==
    IF user_id \notin env.admins
    THEN Outcome(ud, ms, d, <<>>, <<"You don't have permission to use this command.">>,
                 FALSE)
    ELSE IF get_bot_stats(d, fault).raised \/ get_popular_searches(d, 5, 7, fault).raised
         THEN Outcome(ud, ms, d, <<>>, <<"Error retrieving statistics.">>, FALSE)
         ELSE Outcome(ud, ms, d, <<>>, <<"Bot Statistics">>, FALSE)

AdminStatsCommand(u) ==
    \E fault \in {"none", "count_documents", "search_history.aggregate"} :
        /\ Commit("admin_stats", u, 0, NoData, <<>>,
                  admin_stats_command(user_data[u], msgs[u], db, u, fault))
        /\ UNCHANGED <<last_search, site, inflight>>

\* the local date of the host is the UTC date, the day before or the day after
Days == 1..31
MonthEnds == 28..31
LocalDays(utc_day) ==
    {utc_day}
    \cup (IF utc_day = 1 THEN MonthEnds ELSE {utc_day - 1})
    \cup (IF utc_day \in MonthEnds THEN {1} ELSE {})
    \cup (IF utc_day < 31 THEN {utc_day + 1} ELSE {})

\* the date at which the next command is handled
DateChange ==
    \E utc_day \in Days :
    \E local_day \in LocalDays(utc_day) :
        /\ <<utc_day, local_day>> # <<env.utc_day, env.local_day>>
        /\ env' = [env EXCEPT !.utc_day = utc_day, !.local_day = local_day]
        /\ UNCHANGED <<user_data, msgs, db, last, last_search, updates, site, inflight>>

InitAdmin ==
    /\ user_data = [u \in Users |-> <<>>]
    /\ msgs = [u \in Users |-> <<>>]
    /\ db = [users |-> <<>>, search_history |-> <<>>, downloads |-> <<>>]
    /\ last = [op |-> "none", user |-> 0, msg |-> 0, data |-> NoData, text |-> <<>>,
               http |-> <<>>, replies |-> <<>>, raised |-> FALSE]
    /\ last_search = [u \in Users |-> [made |-> FALSE, query |-> <<>>, results |-> <<>>]]
    /\ updates = 0
    /\ site = NoSite
    /\ inflight = [u \in Users |-> <<>>]
    /\ env \in {[Running EXCEPT !.admins = ids] : ids \in SUBSET Users}

NextAdmin ==
    \/ \E u \in Users : AdminStatsCommand(u) \/ StartCommand(u)
    \/ DateChange

SpecAdmin == InitAdmin /\ [][NextAdmin]_vars

\* the step handles /admin_stats of an administrator
AdminStatsStep ==
    /\ updates' = updates + 1
    /\ last'.op = "admin_stats"
    /\ last'.user \in env.admins

\* C24: the 7-days-ago cutoffs of the admin statistics come from subtracting
\* 7 from the day of the month: when the day d of the current date is greater
\* than 7 each cutoff is day d - 7 of the same month; when d <= 7 the
\* computation raises, admin_stats replies 'Error retrieving statistics'
\* instead of statistics and nothing reaches the dispatcher.
C24_CutoffSevenDaysBack ==
    [][AdminStatsStep =>
          IF env.utc_day > 7
          THEN /\ replace_day(env.local_day - 7) =
                     [raises |-> FALSE, day |-> env.utc_day - 7]
               /\ replace_day(env.utc_day - 7) =
                     [raises |-> FALSE, day |-> env.utc_day - 7]
          ELSE /\ last'.replies = <<"Error retrieving statistics.">>
               /\ ~last'.raised]_vars

\* ------------------------------------------------- the two scheduled jobs
\* main() schedules init_database at once and cleanup an hour later, each as
\* a task beside the handlers, and starts polling: updates are handled before,
\* between and after the two jobs.
InitJobs ==
    /\ user_data = [u \in Users |-> <<>>]
    /\ msgs = [u \in Users |-> <<>>]
    /\ db = [users |-> <<>>, search_history |-> <<>>, downloads |-> <<>>]
    /\ last = [op |-> "none", user |-> 0, msg |-> 0, data |-> NoData, text |-> <<>>,
               http |-> <<>>, replies |-> <<>>, raised |-> FALSE]
    /\ last_search = [u \in Users |-> [made |-> FALSE, query |-> <<>>, results |-> <<>>]]
    /\ updates = 0
    /\ site = NoSite
    /\ inflight = [u \in Users |-> <<>>]
    /\ env = [Running EXCEPT !.conn = "none"]

\* init_database: db.connect() sets db.db and pings the server; when the ping
\* or the index creation raises, the task ends and nothing connects again
init_database ==
    /\ env.conn = "none"
    /\ \E conn \in {"connected", "failed"} : env' = [env EXCEPT !.conn = conn]
    /\ UNCHANGED <<user_data, msgs, db, last, last_search, updates, site, inflight>>

\* close_session closes the session when there is one and keeps the closed
\* object in nyaa_bot.session
close_session(session) == IF session = "none" THEN "none" ELSE "closed"

\* cleanup, an hour after the start: close_session, then db.disconnect()
cleanup ==
    /\ env.conn \in {"connected", "failed"}
    /\ env' = [env EXCEPT !.session = close_session(@), !.conn = "closed"]
    /\ UNCHANGED <<user_data, msgs, db, last, last_search, updates, site, inflight>>

\* Of the runs of a handler, those the process allows.  Before connect() has
\* set db.db it is None and the first database call of a handler raises; on
\* a client that was closed, or whose connect() failed, a call may raise or
\* the driver may connect again.  session.get raises on a closed session,
\* which search_nyaa and get_magnet_link take for a failed request.
DatabaseAllows(u) ==
    env.conn = "none" =>
        \/ last'.op = "search" /\ strip(last'.text) = <<>>
        \/ last'.raised /\ db' = db /\ last'.http = <<>>

SessionAllows == (env.session = "closed" /\ last'.http # <<>>) => site'.kind = "error"

JobsStart(u) == StartCommand(u) /\ DatabaseAllows(u)
JobsSearch(u) == SearchUpdate(u, "brief", TRUE) /\ DatabaseAllows(u) /\ SessionAllows
JobsPress(u) == WatchedPress(u) /\ DatabaseAllows(u) /\ SessionAllows

NextJobs ==
    \/ init_database
    \/ cleanup
    \/ \E u \in Users : JobsStart(u) \/ JobsSearch(u) \/ JobsPress(u)

SpecJobs == InitJobs /\ [][NextJobs]_vars

\* C25: whenever search_nyaa or get_magnet_link issues a request, the HTTP
\* session exists and has not been closed, also for the requests handled
\* after the cleanup job has run close_session.
C25_RequestsOnOpenSession ==
    [][(updates' = updates + 1 /\ last'.http # <<>>) => env'.session = "open"]_vars

\* the step handles an update whose handler calls the database first thing
DatabaseStep ==
    /\ updates' = updates + 1
    /\ last'.op = "start" \/ IsSearchStep

\* C26: every database operation of a handler runs after init_database has
\* established the connection and before cleanup has closed it, however the
\* two jobs and the updates are ordered.
C26_DatabaseUsedWhileConnected ==
    [][DatabaseStep => env.conn = "connected"]_vars

====
